---- MODULE Spec2Model ----
(***************************************************************************)
(* The adaptive context-depth controller of DTopAgent:                     *)
(*   src/control/decision.py  evaluate_responses (judge call per record)   *)
(*   src/control/process.py   classify_by_score, extract_evaluation_score, *)
(*                            update_k_values, update_k_values_from_mapping*)
(*                            and the step1/step2/step3 drivers.           *)
(*                                                                         *)
(* A judge response is a Python str.  It is modelled as a sequence of      *)
(* atoms: the two labels "Evaluation Score:" and "Context Adjustment:",    *)
(* single characters (space, newline, minus, digits) and opaque text.      *)
(* Substring tests (`lit in response`) and the regular expression          *)
(* r"Evaluation Score:\s*(\d+)" are computed on that sequence.             *)
(***************************************************************************)
EXTENDS Integers, Sequences, FiniteSets, TLC

VARIABLES original, answer_map, evaluation, score_9_or_10, score_not_9_or_10,
          output_adjusted, updated_with_k, pc,
          processed,      \* output file of answer/process.py
          step2_data,     \* step2's list `data` as it stands after the call
          step3_original, \* step3's list `original_data` after the call
          written,        \* output files written since the run started
          error,          \* the exception that ended the run, None if none
          judge_calls,    \* questions get_response was called for
          client,         \* the replies the judge behind the client may give
          \* process_urls and clean_page_text of url_content_process
          max_retries, results, pos, attempt, soup, requests_made, ret,
          n_processed, failed, wpc

vars == <<original, answer_map, evaluation, score_9_or_10, score_not_9_or_10,
          output_adjusted, updated_with_k, pc, processed, step2_data,
          step3_original, written, error, judge_calls, client, max_retries,
          results,
          pos, attempt, soup, requests_made, ret, n_processed, failed, wpc>>

-----------------------------------------------------------------------------
(* Bounds *)

\* records in the ingested dataset of the pipeline specification
MaxRecords == 2

\* lines in a judge response of the single-record specification
MaxLines == 2

\* ranked documents attached to a record
MaxMeta == 6

-----------------------------------------------------------------------------
(* Text atoms *)

ES == "Evaluation Score:"
CA == "Context Adjustment:"
SP == " "
NL == "\n"

DigitChars == {"0", "1", "2", "3", "4", "5", "6", "7", "8", "9"}

\* int() of one decimal digit character
DigitVal(c) ==
  CASE c = "0" -> 0 [] c = "1" -> 1 [] c = "2" -> 2 [] c = "3" -> 3
    [] c = "4" -> 4 [] c = "5" -> 5 [] c = "6" -> 6 [] c = "7" -> 7
    [] c = "8" -> 8 [] c = "9" -> 9

\* str() of one number 0..9
DigitChar(n) ==
  CASE n = 0 -> "0" [] n = 1 -> "1" [] n = 2 -> "2" [] n = 3 -> "3"
    [] n = 4 -> "4" [] n = 5 -> "5" [] n = 6 -> "6" [] n = 7 -> "7"
    [] n = 8 -> "8" [] n = 9 -> "9"

\* regex class \s restricted to the atoms in use
IsSpace(c) == c \in {SP, NL}

\* regex class \d
IsDigit(c) == c \in DigitChars

\* Python `pat in text` on atom sequences
Contains(text, pat) ==
  \E i \in 1..(Len(text) - Len(pat) + 1) :
     SubSeq(text, i, i + Len(pat) - 1) = pat

\* the literals the code tests with `in`
LitScore9 == <<ES, SP, "9">>
LitScore10 == <<ES, SP, "1", "0">>
LitAdjPlus == <<CA, SP, "1">>
LitAdjZero == <<CA, SP, "0">>
LitAdjMinus == <<CA, SP, "-", "1">>

-----------------------------------------------------------------------------
(* extract_evaluation_score: re.search(r"Evaluation Score:\s*(\d+)")       *)

\* \s* is greedy: index of the first atom at or after i that is not space
RECURSIVE SkipSpaces(_, _)
SkipSpaces(text, i) ==
  IF i <= Len(text) /\ IsSpace(text[i]) THEN SkipSpaces(text, i + 1) ELSE i

\* the pattern matches with the label at position i
MatchAt(text, i) ==
  /\ text[i] = ES
  /\ LET j == SkipSpaces(text, i + 1)
     IN  j <= Len(text) /\ IsDigit(text[j])

\* variant of re_search: the last match instead of the first
RECURSIVE re_search_last(_, _)
re_search_last(text, i) ==
  IF i > Len(text) THEN 0
  ELSE LET later == re_search_last(text, i + 1)
       IN  IF later # 0 THEN later
           ELSE IF MatchAt(text, i) THEN i
           ELSE 0

\* re.search scans left to right; 0 stands for None
RECURSIVE re_search(_, _)
re_search(text, i) ==
  IF i > Len(text) THEN 0
  ELSE IF MatchAt(text, i) THEN i
  ELSE re_search(text, i + 1)

\* int(match.group(1)): \d+ is greedy, acc is the value read so far
RECURSIVE int_group(_, _, _)
int_group(text, j, acc) ==
  IF j <= Len(text) /\ IsDigit(text[j])
  THEN int_group(text, j + 1, 10 * acc + DigitVal(text[j]))
  ELSE acc

\* variant of extract_evaluation_score: a neutral default of 5
extract_evaluation_score_default5(response) ==
  LET m == re_search(response, 1)
  IN  IF m # 0 THEN int_group(response, SkipSpaces(response, m + 1), 0) ELSE 5

extract_evaluation_score(response) ==
  LET m == re_search(response, 1)
  IN  IF m # 0 THEN int_group(response, SkipSpaces(response, m + 1), 0) ELSE 0

-----------------------------------------------------------------------------
(* Depth levels *)

KValues == {"0", "1", "2", "3", "4", "5", "null"}

\* int(k) for the branches that call it (k is "0".."4" there)
int(k) == DigitVal(k)

\* str(n) for the values the transitions produce
str(n) == DigitChar(n)

-----------------------------------------------------------------------------
(* classify_by_score *)

\* the test of the loop body: substring containment of either literal
is_9_or_10(item) ==
  Contains(item.response, LitScore9) \/ Contains(item.response, LitScore10)

\* variant of classify_by_score: the else of the loop body is lost and
\* every item is appended to the low list
classify_by_score_low_all(data) ==
  [high |-> SelectSeq(data, LAMBDA item : is_9_or_10(item)),
   low  |-> data]

classify_by_score(data) ==
  [high |-> SelectSeq(data, LAMBDA item : is_9_or_10(item)),
   low  |-> SelectSeq(data, LAMBDA item : ~is_9_or_10(item))]

-----------------------------------------------------------------------------
(* update_k_values: the three branches of the loop body give the new k *)

\* k == "0"
branch_k_zero(k, response) ==
  IF Contains(response, LitAdjPlus) THEN str(int(k) + 1)
  ELSE IF Contains(response, LitAdjZero) THEN k
  ELSE k

\* variant of branch_k_ceiling: the reset threshold is off by one
branch_k_ceiling_le3(k, response, score) ==
  IF score <= 3 THEN "0"
  ELSE IF Contains(response, LitAdjMinus) /\ score > 2 THEN str(5 - 1)
  ELSE k

\* variant of branch_k_ceiling: a +1 vote is applied at the ceiling
branch_k_ceiling_incr(k, response, score) ==
  IF score < 3 THEN "0"
  ELSE IF Contains(response, LitAdjMinus) /\ score > 2 THEN str(5 - 1)
  ELSE IF Contains(response, LitAdjPlus) /\ score > 2 THEN str(5 + 1)
  ELSE k

\* k == "5" or k == "null"
branch_k_ceiling(k, response, score) ==
  IF score < 3 THEN "0"
  ELSE IF Contains(response, LitAdjMinus) /\ score > 2 THEN str(5 - 1)
  ELSE IF Contains(response, LitAdjPlus) /\ score > 2 THEN k
  ELSE IF Contains(response, LitAdjZero) /\ score > 2 THEN k
  ELSE k

\* variant of branch_k_middle: the -1 rule is a bare else
branch_k_middle_else_down(k, response) ==
  IF Contains(response, LitAdjPlus) THEN str(int(k) + 1)
  ELSE IF Contains(response, LitAdjZero) THEN k
  ELSE str(int(k) - 1)

\* variant of branch_k_middle: the +1 literal is tested first
branch_k_middle_plus_first(k, response) ==
  IF Contains(response, LitAdjPlus) THEN str(int(k) + 1)
  ELSE IF Contains(response, LitAdjMinus) THEN str(int(k) - 1)
  ELSE IF Contains(response, LitAdjZero) THEN k
  ELSE k

\* k in ["1", "2", "3", "4"]
branch_k_middle(k, response) ==
  IF Contains(response, LitAdjMinus) THEN str(int(k) - 1)
  ELSE IF Contains(response, LitAdjPlus) THEN str(int(k) + 1)
  ELSE IF Contains(response, LitAdjZero) THEN k
  ELSE k

\* item.get("k", "0")
get_k(item) == IF "k" \in DOMAIN item THEN item.k ELSE "0"

\* item[field] = value on a dict that may lack the field
SetField(item, field, value) ==
  [f \in (DOMAIN item) \cup {field} |-> IF f = field THEN value ELSE item[f]]

\* variant of new_k: "null" is not tested with "5"
new_k_null_passthrough(item) ==
  LET k == get_k(item)
      response == item.response
      score == extract_evaluation_score(response)
  IN  IF k = "0" THEN branch_k_zero(k, response)
      ELSE IF k = "5" THEN branch_k_ceiling(k, response, score)
      ELSE IF k \in {"1", "2", "3", "4"} THEN branch_k_middle(k, response)
      ELSE k

\* one iteration of the loop: the value of item["k"] afterwards, for an
\* item that holds the field or is assigned it
new_k(item) ==
  LET k == get_k(item)
      response == item.response
      score == extract_evaluation_score(response)
  IN  IF k = "0" THEN branch_k_zero(k, response)
      ELSE IF k = "5" \/ k = "null" THEN branch_k_ceiling(k, response, score)
      ELSE IF k \in {"1", "2", "3", "4"} THEN branch_k_middle(k, response)
      ELSE k

\* the loop body reaches one of the assignments item["k"] = ...
assigns_k(item) ==
  LET k == get_k(item)
      response == item.response
      score == extract_evaluation_score(response)
  IN  IF k = "0"
      THEN Contains(response, LitAdjPlus) \/ Contains(response, LitAdjZero)
      ELSE IF k = "5" \/ k = "null"
      THEN \/ score < 3
           \/ Contains(response, LitAdjMinus) /\ score > 2
           \/ Contains(response, LitAdjPlus) /\ score > 2
           \/ Contains(response, LitAdjZero) /\ score > 2
      ELSE IF k \in {"1", "2", "3", "4"}
      THEN \/ Contains(response, LitAdjMinus)
           \/ Contains(response, LitAdjPlus)
           \/ Contains(response, LitAdjZero)
      ELSE FALSE

\* int(k) raises ValueError unless k is a decimal digit
int_raises(k) == k \notin DigitChars

\* the loop body raises: int(k) is called in the k == "0" branch and in
\* the k in ["1", "2", "3", "4"] branch only
new_k_raises(item) ==
  LET k == get_k(item)
      response == item.response
  IN  IF k = "0" THEN Contains(response, LitAdjPlus) /\ int_raises(k)
      ELSE IF k = "5" \/ k = "null" THEN FALSE
      ELSE IF k \in {"1", "2", "3", "4"}
      THEN (Contains(response, LitAdjMinus) \/ Contains(response, LitAdjPlus))
             /\ int_raises(k)
      ELSE FALSE

\* variant of update_k_values: only the items whose k changed are returned
update_k_values_changed_only(data) ==
  SelectSeq([i \in 1..Len(data) |-> SetField(data[i], "k", new_k(data[i]))],
            LAMBDA item : \E i \in 1..Len(data) :
                /\ item.question = data[i].question
                /\ item.k # data[i].k)

\* the items are changed in place and the same list is returned;
\* an item without the field gets it only when an assignment is reached
update_k_values(data) ==
  [i \in 1..Len(data) |->
     IF "k" \in DOMAIN data[i] \/ assigns_k(data[i])
     THEN SetField(data[i], "k", new_k(data[i]))
     ELSE data[i]]

-----------------------------------------------------------------------------
(* update_k_values_from_mapping and the mapping step3 builds *)

\* variant of question_to_k: an earlier item is not overwritten
RECURSIVE question_to_k_first(_)
question_to_k_first(k_data) ==
  IF k_data = <<>> THEN <<>>
  ELSE LET rest == question_to_k_first(Tail(k_data))
           q == Head(k_data).question
       IN  [x \in (DOMAIN rest) \cup {q} |->
              IF x = q THEN Head(k_data).k ELSE rest[x]]

\* {item["question"]: item.get("k") for item in k_data}: a later item
\* overwrites an earlier one with the same question
RECURSIVE question_to_k(_)
question_to_k(k_data) ==
  IF k_data = <<>> THEN <<>>
  ELSE LET n == Len(k_data)
           rest == question_to_k(SubSeq(k_data, 1, n - 1))
           q == k_data[n].question
       IN  [x \in (DOMAIN rest) \cup {q} |->
              IF x = q THEN k_data[n].k ELSE rest[x]]

\* variant of update_k_values_from_mapping: the append is outside the if
RECURSIVE update_k_values_from_mapping_keep_all(_, _)
update_k_values_from_mapping_keep_all(original_data, k_mapping) ==
  IF original_data = <<>> THEN <<>>
  ELSE LET item == Head(original_data)
           tail == update_k_values_from_mapping_keep_all(Tail(original_data),
                                                         k_mapping)
       IN  IF item.question \in DOMAIN k_mapping
           THEN <<[item EXCEPT !.k = k_mapping[item.question]]>> \o tail
           ELSE <<item>> \o tail

\* variant of update_k_values_from_mapping: the output record is built
\* from the question and the mapped k alone
RECURSIVE update_k_values_from_mapping_rebuilt(_, _)
update_k_values_from_mapping_rebuilt(original_data, k_mapping) ==
  IF original_data = <<>> THEN <<>>
  ELSE LET item == Head(original_data)
           tail == update_k_values_from_mapping_rebuilt(Tail(original_data),
                                                        k_mapping)
       IN  IF item.question \in DOMAIN k_mapping
           THEN <<[question |-> item.question,
                   k |-> k_mapping[item.question]]>> \o tail
           ELSE tail

\* variant of update_k_values_from_mapping: the item is put at the front
\* of updated_data
RECURSIVE update_k_values_from_mapping_reversed(_, _)
update_k_values_from_mapping_reversed(original_data, k_mapping) ==
  IF original_data = <<>> THEN <<>>
  ELSE LET item == Head(original_data)
           tail == update_k_values_from_mapping_reversed(Tail(original_data),
                                                         k_mapping)
       IN  IF item.question \in DOMAIN k_mapping
           THEN tail \o <<[item EXCEPT !.k = k_mapping[item.question]]>>
           ELSE tail

RECURSIVE update_k_values_from_mapping(_, _)
update_k_values_from_mapping(original_data, k_mapping) ==
  IF original_data = <<>> THEN <<>>
  ELSE LET item == Head(original_data)
           tail == update_k_values_from_mapping(Tail(original_data), k_mapping)
       IN  IF item.question \in DOMAIN k_mapping
           THEN <<[item EXCEPT !.k = k_mapping[item.question]]>> \o tail
           ELSE tail

\* the list original_data after the call: the matched items were assigned
\* the mapped k in place, the other items are untouched and still listed
original_data_after(original_data, k_mapping) ==
  [i \in 1..Len(original_data) |->
     IF original_data[i].question \in DOMAIN k_mapping
     THEN SetField(original_data[i], "k", k_mapping[original_data[i].question])
     ELSE original_data[i]]

-----------------------------------------------------------------------------
(* process_meta_by_k (answer/process.py) *)

\* int(k_value) of the try block raises TypeError for None and ValueError
\* for text that is not a number
k_int_raises(k_value) == k_value \notin DigitChars \cup {"-1"}

\* int(k_value) where it does not raise
k_int(k_value) == IF k_value = "-1" THEN 0 - 1 ELSE DigitVal(k_value)

\* meta_list[:n] for n >= 0
Slice(meta_list, n) ==
  SubSeq(meta_list, 1, IF n < Len(meta_list) THEN n ELSE Len(meta_list))

\* variant of process_meta_item: the last k documents are kept
process_meta_item_tail(item) ==
  LET meta_list == IF "meta" \in DOMAIN item THEN item.meta ELSE <<>>
      n == Len(meta_list)
  IN  IF "k" \notin DOMAIN item THEN SetField(item, "meta", meta_list)
      ELSE IF item.k = "0" THEN SetField(item, "meta", <<>>)
      ELSE IF item.k = "null" THEN SetField(item, "meta", meta_list)
      ELSE IF k_int_raises(item.k) THEN SetField(item, "meta", meta_list)
      ELSE LET k_int0 == IF k_int(item.k) < 0 THEN 0 ELSE k_int(item.k)
               m == IF k_int0 < n THEN k_int0 ELSE n
           IN  SetField(item, "meta", SubSeq(meta_list, n - m + 1, n))

\* variant of process_meta_item: the slice drops the first k documents
process_meta_item_drop(item) ==
  LET meta_list == IF "meta" \in DOMAIN item THEN item.meta ELSE <<>>
  IN  IF "k" \notin DOMAIN item
      THEN SetField(item, "meta", meta_list)
      ELSE IF item.k = "0" THEN SetField(item, "meta", <<>>)
      ELSE IF item.k = "null" THEN SetField(item, "meta", meta_list)
      ELSE IF k_int_raises(item.k) THEN SetField(item, "meta", meta_list)
      ELSE LET k_int0 == IF k_int(item.k) < 0 THEN 0 ELSE k_int(item.k)
           IN  SetField(item, "meta",
                        SubSeq(meta_list, k_int0 + 1, Len(meta_list)))

\* the loop body: the item afterwards
process_meta_item(item) ==
  LET meta_list == IF "meta" \in DOMAIN item THEN item.meta ELSE <<>>
  IN  IF "k" \notin DOMAIN item
      THEN SetField(item, "meta", meta_list)
      ELSE IF item.k = "0" THEN SetField(item, "meta", <<>>)
      ELSE IF item.k = "null" THEN SetField(item, "meta", meta_list)
      ELSE IF k_int_raises(item.k) THEN SetField(item, "meta", meta_list)
      ELSE LET k_int0 == IF k_int(item.k) < 0 THEN 0 ELSE k_int(item.k)
           IN  SetField(item, "meta", Slice(meta_list, k_int0))

process_meta_by_k(data) ==
  [i \in 1..Len(data) |-> process_meta_item(data[i])]

-----------------------------------------------------------------------------
(* Judge responses *)

\* decimal text of a natural number, as an f-string or the judge writes it
RECURSIVE Decimal(_)
Decimal(n) ==
  IF n < 10 THEN <<DigitChar(n)>>
  ELSE Decimal(n \div 10) \o <<DigitChar(n % 10)>>

\* text of an adjustment vote: "1", "0" or "-1"
AdjText(a) == IF a < 0 THEN <<"-">> \o Decimal(0 - a) ELSE Decimal(a)

\* the output format construct_prompt asks for
JudgeReply(score, adj) ==
  <<ES, SP>> \o Decimal(score) \o <<NL, CA, SP>> \o AdjText(adj)

\* response = f"Error: {e}" when get_response raises
ErrorResponse == <<"Error:", SP, "API request failed">>

\* scores a judge line may state: the asked 0..10 and two longer numbers
ScoreValues == (0..10) \cup {90, 100}

\* a score line, with or without the space after the label, and one
\* that states no number
ScoreLines ==
  {<<ES>> \o ws \o Decimal(n) : ws \in {<<>>, <<SP>>}, n \in ScoreValues}
    \cup {<<ES, SP, "-", "1">>}

\* an adjustment line: the three votes and a vote outside them
AdjLines == {<<CA, SP>> \o AdjText(a) : a \in {-1, 0, 1, 2}}

Lines == ScoreLines \cup AdjLines \cup {ErrorResponse}

\* all texts of exactly n lines
RECURSIVE TextsOf(_)
TextsOf(n) ==
  IF n = 0 THEN {<<>>}
  ELSE IF n = 1 THEN Lines
  ELSE {t \o <<NL>> \o l : t \in TextsOf(n - 1), l \in Lines}

\* judge responses of the single-record specification
Responses == UNION {TextsOf(n) : n \in 0..MaxLines}

\* outcomes of one judge call in the pipeline specification
JudgeOutcomes ==
  {JudgeReply(9, 1), JudgeReply(7, 1), JudgeReply(7, -1), JudgeReply(2, 0),
   ErrorResponse}

\* a reply that leaves out the space after the score label
ReplyNoSpace == <<ES, "9", NL, CA, SP, "0">>

-----------------------------------------------------------------------------
(* Datasets *)

Questions == {"A", "B"}

\* the ranked documents of a record
Docs == [i \in 1..MaxMeta |-> i]

\* the reference answers of a record (use_predictor.py writes the field)
GroundTruth == <<"truth">>

Records ==
  [question : Questions, k : KValues, meta : {Docs},
   ground_truth : {GroundTruth}]

Datasets == UNION {[1..n -> Records] : n \in 1..MaxRecords}

\* answer file: question -> answer, for any subset of the questions
AnswerMaps == UNION {[S -> {"answer"}] : S \in SUBSET Questions}

\* k values a dataset file may hold besides the seven depth levels
RawK == KValues \cup {"7", "-1", "abc"}

\* ranked document lists of every length up to MaxMeta
Metas == {[i \in 1..n |-> i] : n \in 0..MaxMeta}

\* a record with and without each of the optional fields k and meta
RawRecords ==
  LET base == [question |-> "A", ground_truth |-> GroundTruth]
      with_k == {base} \cup {SetField(base, "k", k) : k \in RawK}
  IN  with_k \cup {SetField(r, "meta", m) : r \in with_k, m \in Metas}

\* stands for "no k field" where a k is chosen for a judged record
NoK == "<absent>"

\* a judged record with response r, without the field k or with k
RawJudged(r, k) ==
  IF k = NoK
  THEN [question |-> "A", meta |-> Docs, answer |-> "answer", response |-> r]
  ELSE [question |-> "A", meta |-> Docs, answer |-> "answer", response |-> r,
        k |-> k]

\* names of the output files of run_all_steps
HighFile == "score_9_or_10.json"
LowFile == "score_not_9_or_10.json"
AdjustedFile == "output_adjusted.json"
FinalFile == "updated_with_k.json"

\* the files the subcommands are given on the command line
EvaluationFile == "evaluation.json"
OriginalFile == "original.json"

-----------------------------------------------------------------------------
(* Exceptions and load_json_file / save_json_file (control/process.py)     *)

\* no exception
None == [kind |-> "None", message |-> <<>>, function |-> "", file |-> ""]

\* FileNotFoundError(f"File not found: {file_path}")
FileNotFoundError(file_path) ==
  [kind |-> "FileNotFoundError",
   message |-> <<"File not found: ", file_path>>,
   function |-> "load_json_file", file |-> file_path]

\* json.JSONDecodeError(*args): the constructor takes (msg, doc, pos);
\* called with fewer arguments the call itself raises TypeError
JSONDecodeError(args, file_path) ==
  IF Len(args) = 3
  THEN [kind |-> "JSONDecodeError", message |-> args[1],
        function |-> "load_json_file", file |-> file_path]
  ELSE [kind |-> "TypeError",
        message |-> <<"JSONDecodeError.__init__() missing ",
                      "required positional arguments: 'doc' and 'pos'">>,
        function |-> "load_json_file", file |-> file_path]

\* the states a file to load may be in
FileStates == {"ok", "missing", "invalid"}

\* the exception load_json_file ends with, None when it returns the data
load_json_file(file_path, state) ==
  IF state = "missing" THEN FileNotFoundError(file_path)
  ELSE IF state = "invalid"
  THEN JSONDecodeError(
         << <<"Invalid JSON in file ", file_path, ": ",
              "Expecting value: line 1 column 1 (char 0)">> >>, file_path)
  ELSE None

\* open(file_path, 'w') of save_json_file fails: the OSError is not caught
save_json_file_error(file_path) ==
  [kind |-> "OSError",
   message |-> <<"[Errno 13] Permission denied: ", file_path>>,
   function |-> "save_json_file", file |-> file_path]

\* item['k'] or item['meta'] on a record without the field
KeyError(field) ==
  [kind |-> "KeyError", message |-> <<field>>,
   function |-> "evaluate_responses", file |-> ""]

-----------------------------------------------------------------------------
(* evaluate_responses (decision.py): replies[i] is what the judge call for *)
(* meta_data[i] yields, ErrorResponse when get_response raises             *)

\* item['k'] and item['meta'] raise KeyError on a record without the field,
\* before the answer lookup; nothing catches it
evaluate_raises(meta_data) ==
  \E i \in 1..Len(meta_data) :
     "k" \notin DOMAIN meta_data[i] \/ "meta" \notin DOMAIN meta_data[i]

\* variant of evaluate_responses: a failed judge call skips the record
RECURSIVE evaluate_responses_skip_failed(_, _, _)
evaluate_responses_skip_failed(meta_data, answers, replies) ==
  IF meta_data = <<>> THEN <<>>
  ELSE LET item == Head(meta_data)
           rest == evaluate_responses_skip_failed(Tail(meta_data), answers,
                                                  Tail(replies))
       IN  IF item.question \notin DOMAIN answers THEN rest
           ELSE IF Head(replies) = ErrorResponse THEN rest
           ELSE <<[question |-> item.question,
                   meta     |-> item.meta,
                   answer   |-> answers[item.question],
                   response |-> Head(replies),
                   k        |-> item.k]>> \o rest

RECURSIVE evaluate_responses(_, _, _)
evaluate_responses(meta_data, answers, replies) ==
  IF meta_data = <<>> THEN <<>>
  ELSE LET item == Head(meta_data)
           rest == evaluate_responses(Tail(meta_data), answers, Tail(replies))
       IN  IF item.question \notin DOMAIN answers THEN rest
           ELSE <<[question |-> item.question,
                   meta     |-> item.meta,
                   answer   |-> answers[item.question],
                   response |-> Head(replies),
                   k        |-> item.k]>> \o rest

\* the KeyError evaluate_responses ends with: the first record that lacks
\* a field, item['k'] being read before item['meta']
RECURSIVE evaluate_error(_)
evaluate_error(meta_data) ==
  IF meta_data = <<>> THEN None
  ELSE IF "k" \notin DOMAIN Head(meta_data) THEN KeyError("k")
  ELSE IF "meta" \notin DOMAIN Head(meta_data) THEN KeyError("meta")
  ELSE evaluate_error(Tail(meta_data))

\* variant of get_response_calls: the judge is called before the lookup
\* in the answer map
RECURSIVE get_response_calls_before_lookup(_, _)
get_response_calls_before_lookup(meta_data, answers) ==
  IF meta_data = <<>> THEN <<>>
  ELSE LET item == Head(meta_data)
       IN  IF "k" \notin DOMAIN item \/ "meta" \notin DOMAIN item THEN <<>>
           ELSE <<item.question>>
                  \o get_response_calls_before_lookup(Tail(meta_data), answers)

\* the questions client.get_response is called for, in call order; the
\* loop ends at a record that raises KeyError
RECURSIVE get_response_calls(_, _)
get_response_calls(meta_data, answers) ==
  IF meta_data = <<>> THEN <<>>
  ELSE LET item == Head(meta_data)
           rest == get_response_calls(Tail(meta_data), answers)
       IN  IF "k" \notin DOMAIN item \/ "meta" \notin DOMAIN item THEN <<>>
           ELSE IF item.question \notin DOMAIN answers THEN rest
           ELSE <<item.question>> \o rest

-----------------------------------------------------------------------------
(* url_content_process: inputs of process_urls and clean_page_text         *)

\* largest --retries value given on the command line
MaxRetries == 2

\* soup = None
NoSoup == <<"None">>

\* a fetched page: its <p> blocks, each shorter than min_length or not
Pages == {<<>>, <<"short">>, <<"long">>, <<"short", "long">>}

\* the result entries of the input file: with a url or without one
Results ==
  {<<[url |-> "u1", snippet |-> <<"s1">>]>>,
   <<[url |-> "", snippet |-> <<"s1">>], [url |-> "u2", snippet |-> <<"s2">>]>>,
   <<[url |-> "u1", snippet |-> <<"s1">>], [url |-> "u2", snippet |-> <<"s2">>]>>}

\* the blocks clean_page_text keeps: len(text) >= min_length; the empty
\* sequence stands for the empty string
cleaned_blocks(page) == SelectSeq(page, LAMBDA text : text = "long")

\* the url script is not running
WebIdle ==
  /\ max_retries = 1
  /\ results = <<>>
  /\ pos = 1
  /\ attempt = 0
  /\ soup = NoSoup
  /\ requests_made = 0
  /\ ret = [kind |-> "none", value |-> <<>>]
  /\ n_processed = 0
  /\ failed = 0
  /\ wpc = "idle"

-----------------------------------------------------------------------------
(* The pipeline *)

Init ==
  /\ original \in Datasets
  /\ answer_map \in AnswerMaps
  /\ evaluation = <<>>
  /\ score_9_or_10 = <<>>
  /\ score_not_9_or_10 = <<>>
  /\ output_adjusted = <<>>
  /\ updated_with_k = <<>>
  /\ processed = <<>>
  /\ step2_data = <<>>
  /\ step3_original = <<>>
  /\ written = {}
  /\ pc = "ingested"
  /\ error = None
  /\ judge_calls = <<>>
  /\ WebIdle
  /\ client = JudgeOutcomes

\* decision.py main: evaluate every record of the dataset; a KeyError
\* ends the run before save_results
Evaluate ==
  /\ pc = "ingested"
  /\ IF evaluate_raises(original)
     THEN /\ evaluation' = evaluation
          /\ pc' = "evaluate_raised"
     ELSE /\ \E replies \in [1..Len(original) -> client] :
               evaluation' = evaluate_responses(original, answer_map, replies)
          /\ pc' = "evaluated"
  /\ error' = evaluate_error(original)
  /\ judge_calls' = get_response_calls(original, answer_map)
  /\ UNCHANGED <<original, answer_map, score_9_or_10, score_not_9_or_10,
                 output_adjusted, updated_with_k, processed, step2_data,
                 step3_original, written>>
  /\ UNCHANGED <<client, max_retries, results, pos, attempt, soup,
                 requests_made, ret, n_processed, failed, wpc>>

\* step1_classify_scores(evaluation_file, high_scores_file, low_scores_file)
step1_classify_scores ==
  /\ pc = "evaluated"
  /\ score_9_or_10' = classify_by_score(evaluation).high
  /\ score_not_9_or_10' = classify_by_score(evaluation).low
  /\ written' = written \cup {HighFile, LowFile}
  /\ pc' = "classified"
  /\ UNCHANGED <<original, answer_map, evaluation, output_adjusted,
                 updated_with_k, processed, step2_data, step3_original>>
  /\ UNCHANGED <<error, judge_calls>>
  /\ UNCHANGED <<client, max_retries, results, pos, attempt, soup,
                 requests_made, ret, n_processed, failed, wpc>>

\* step1 ends in an I/O or parse error: in load_json_file, in the first
\* save_json_file, or in the second one, after the high file was written
step1_fails ==
  /\ pc = "evaluated"
  /\ \/ /\ \E state \in FileStates \ {"ok"} :
              error' = load_json_file(EvaluationFile, state)
        /\ UNCHANGED <<score_9_or_10, written>>
     \/ /\ error' = save_json_file_error(HighFile)
        /\ UNCHANGED <<score_9_or_10, written>>
     \/ /\ error' = save_json_file_error(LowFile)
        /\ score_9_or_10' = classify_by_score(evaluation).high
        /\ written' = written \cup {HighFile}
  /\ pc' = "aborted"
  /\ UNCHANGED judge_calls
  /\ UNCHANGED <<original, answer_map, evaluation, score_not_9_or_10,
                 output_adjusted, updated_with_k, processed, step2_data,
                 step3_original>>
  /\ UNCHANGED <<client, max_retries, results, pos, attempt, soup,
                 requests_made, ret, n_processed, failed, wpc>>

\* step2_reflect_and_update_k(low_scores_file, updated_k_file)
step2_reflect_and_update_k ==
  /\ pc = "classified"
  /\ IF \E i \in 1..Len(score_not_9_or_10) : new_k_raises(score_not_9_or_10[i])
     THEN /\ pc' = "reflect_raised"
          /\ UNCHANGED <<output_adjusted, step2_data, written>>
     ELSE /\ step2_data' = update_k_values(score_not_9_or_10)
          /\ output_adjusted' = update_k_values(score_not_9_or_10)
          /\ written' = written \cup {AdjustedFile}
          /\ pc' = "reflected"
  /\ UNCHANGED <<original, answer_map, evaluation, score_9_or_10,
                 score_not_9_or_10, updated_with_k, processed, step3_original>>
  /\ UNCHANGED <<error, judge_calls>>
  /\ UNCHANGED <<client, max_retries, results, pos, attempt, soup,
                 requests_made, ret, n_processed, failed, wpc>>

\* variant of step2_fails: the error is swallowed and the run goes on
step2_fails_swallowed ==
  /\ pc = "classified"
  /\ pc' = "reflected"
  /\ UNCHANGED <<original, answer_map, evaluation, score_9_or_10,
                 score_not_9_or_10, output_adjusted, updated_with_k, processed,
                 step2_data, step3_original, written>>
  /\ UNCHANGED <<error, judge_calls>>
  /\ UNCHANGED <<client, max_retries, results, pos, attempt, soup,
                 requests_made, ret, n_processed, failed, wpc>>

\* step2 ends in an I/O error of save_json_file (its input was written
\* by step1 of the same run): the error leaves run_all_steps
step2_fails ==
  /\ pc = "classified"
  /\ error' = save_json_file_error(AdjustedFile)
  /\ pc' = "aborted"
  /\ UNCHANGED judge_calls
  /\ UNCHANGED <<original, answer_map, evaluation, score_9_or_10,
                 score_not_9_or_10, output_adjusted, updated_with_k, processed,
                 step2_data, step3_original, written>>
  /\ UNCHANGED <<client, max_retries, results, pos, attempt, soup,
                 requests_made, ret, n_processed, failed, wpc>>

\* step3_update_original_k_values(original_file, updated_k_file, final_output_file)
step3_update_original_k_values ==
  /\ pc = "reflected"
  /\ updated_with_k' =
       update_k_values_from_mapping(original, question_to_k(output_adjusted))
  /\ step3_original' =
       original_data_after(original, question_to_k(output_adjusted))
  /\ written' = written \cup {FinalFile}
  /\ pc' = "updated"
  /\ UNCHANGED <<original, answer_map, evaluation, score_9_or_10,
                 score_not_9_or_10, output_adjusted, processed, step2_data>>
  /\ UNCHANGED <<error, judge_calls>>
  /\ UNCHANGED <<client, max_retries, results, pos, attempt, soup,
                 requests_made, ret, n_processed, failed, wpc>>

\* step3 ends in an I/O or parse error, in load_json_file of the
\* original dataset or in save_json_file
step3_fails ==
  /\ pc = "reflected"
  /\ \/ \E state \in FileStates \ {"ok"} :
           error' = load_json_file(OriginalFile, state)
     \/ error' = save_json_file_error(FinalFile)
  /\ pc' = "aborted"
  /\ UNCHANGED judge_calls
  /\ UNCHANGED <<original, answer_map, evaluation, score_9_or_10,
                 score_not_9_or_10, output_adjusted, updated_with_k, processed,
                 step2_data, step3_original, written>>
  /\ UNCHANGED <<client, max_retries, results, pos, attempt, soup,
                 requests_made, ret, n_processed, failed, wpc>>

\* variant of NextRound: the operator ingests a dataset of their choice
NextRound_reingest ==
  /\ pc = "updated"
  /\ original' \in Datasets
  /\ answer_map' \in AnswerMaps
  /\ evaluation' = <<>>
  /\ score_9_or_10' = <<>>
  /\ score_not_9_or_10' = <<>>
  /\ output_adjusted' = <<>>
  /\ updated_with_k' = <<>>
  /\ processed' = <<>>
  /\ step2_data' = <<>>
  /\ step3_original' = <<>>
  /\ written' = {}
  /\ pc' = "ingested"
  /\ error' = None
  /\ judge_calls' = <<>>
  /\ UNCHANGED <<client, max_retries, results, pos, attempt, soup,
                 requests_made, ret, n_processed, failed, wpc>>

\* the operator starts the next round: the merged dataset is the new
\* dataset, answers are regenerated, a fresh output directory is used
NextRound ==
  /\ pc = "updated"
  /\ original' = updated_with_k
  /\ answer_map' \in AnswerMaps
  /\ evaluation' = <<>>
  /\ score_9_or_10' = <<>>
  /\ score_not_9_or_10' = <<>>
  /\ output_adjusted' = <<>>
  /\ updated_with_k' = <<>>
  /\ processed' = <<>>
  /\ step2_data' = <<>>
  /\ step3_original' = <<>>
  /\ written' = {}
  /\ pc' = "ingested"
  /\ error' = None
  /\ judge_calls' = <<>>
  /\ UNCHANGED <<client, max_retries, results, pos, attempt, soup,
                 requests_made, ret, n_processed, failed, wpc>>

Next ==
  \/ Evaluate
  \/ step1_classify_scores
  \/ step1_fails
  \/ step2_reflect_and_update_k
  \/ step2_fails
  \/ step3_update_original_k_values
  \/ step3_fails
  \/ NextRound

Spec == Init /\ [][Next]_vars

-----------------------------------------------------------------------------
(* Rounds repeated by the operator on a dataset with unique questions, no  *)
(* step ending in an I/O error                                             *)

InitRounds ==
  /\ original \in Datasets
  /\ \A i, j \in 1..Len(original) :
        i # j => original[i].question # original[j].question
  /\ answer_map \in AnswerMaps
  /\ client = JudgeOutcomes \cup {ReplyNoSpace}
  /\ evaluation = <<>>
  /\ score_9_or_10 = <<>>
  /\ score_not_9_or_10 = <<>>
  /\ output_adjusted = <<>>
  /\ updated_with_k = <<>>
  /\ processed = <<>>
  /\ step2_data = <<>>
  /\ step3_original = <<>>
  /\ written = {}
  /\ error = None
  /\ judge_calls = <<>>
  /\ WebIdle
  /\ pc = "ingested"

NextRounds ==
  \/ Evaluate
  \/ step1_classify_scores
  \/ step2_reflect_and_update_k
  \/ step3_update_original_k_values
  \/ NextRound

\* the operator always runs the next step
SpecRounds == InitRounds /\ [][NextRounds]_vars /\ WF_vars(NextRounds)

-----------------------------------------------------------------------------
(* The subcommands run on one judged record: `classify` and `reflect`      *)
(* both given the evaluation file as --input                               *)

InitFn ==
  /\ \E k \in KValues :
       original = <<[question |-> "A", k |-> k, meta |-> Docs,
                     ground_truth |-> GroundTruth]>>
  /\ answer_map = [q \in {"A"} |-> "answer"]
  /\ \E r \in Responses :
       evaluation = evaluate_responses(original, answer_map, <<r>>)
  /\ score_9_or_10 = <<>>
  /\ score_not_9_or_10 = <<>>
  /\ output_adjusted = <<>>
  /\ updated_with_k = <<>>
  /\ processed = <<>>
  /\ step2_data = <<>>
  /\ step3_original = <<>>
  /\ written = {}
  /\ pc = "evaluated"
  /\ error = None
  /\ judge_calls = <<>>
  /\ WebIdle
  /\ client = {}

\* step2_reflect_and_update_k(evaluation_file, updated_k_file)
reflect_evaluation ==
  /\ pc = "evaluated"
  /\ IF \E i \in 1..Len(evaluation) : new_k_raises(evaluation[i])
     THEN /\ pc' = "reflect_raised"
          /\ UNCHANGED <<output_adjusted, step2_data, written>>
     ELSE /\ step2_data' = update_k_values(evaluation)
          /\ output_adjusted' = update_k_values(evaluation)
          /\ written' = written \cup {AdjustedFile}
          /\ pc' = "reflected_all"
  /\ UNCHANGED <<original, answer_map, evaluation, score_9_or_10,
                 score_not_9_or_10, updated_with_k, processed, step3_original>>
  /\ UNCHANGED <<error, judge_calls>>
  /\ UNCHANGED <<client, max_retries, results, pos, attempt, soup,
                 requests_made, ret, n_processed, failed, wpc>>

NextFn ==
  \/ step1_classify_scores
  \/ reflect_evaluation

SpecFn == InitFn /\ [][NextFn]_vars

-----------------------------------------------------------------------------
(* Files with records outside the data model: a dataset record or a judged *)
(* record that lacks k or meta, or holds a k that is no depth level        *)

\* process_file(input_file, output_file) of answer/process.py
process_file ==
  /\ pc = "ingested"
  /\ processed' = process_meta_by_k(original)
  /\ pc' = "trimmed"
  /\ UNCHANGED <<original, answer_map, evaluation, score_9_or_10,
                 score_not_9_or_10, output_adjusted, updated_with_k,
                 step2_data, step3_original, written>>
  /\ UNCHANGED <<error, judge_calls>>
  /\ UNCHANGED <<client, max_retries, results, pos, attempt, soup,
                 requests_made, ret, n_processed, failed, wpc>>

InitRaw ==
  /\ answer_map = [q \in {"A"} |-> "answer"]
  /\ \/ /\ pc = "ingested"
        /\ \E r \in RawRecords : original = <<r>>
        /\ evaluation = <<>>
     \/ /\ pc = "evaluated"
        /\ original = <<>>
        /\ \E r \in Responses, k \in RawK \cup {NoK} :
              evaluation = <<RawJudged(r, k)>>
  /\ score_9_or_10 = <<>>
  /\ score_not_9_or_10 = <<>>
  /\ output_adjusted = <<>>
  /\ updated_with_k = <<>>
  /\ processed = <<>>
  /\ step2_data = <<>>
  /\ step3_original = <<>>
  /\ written = {}
  /\ error = None
  /\ judge_calls = <<>>
  /\ WebIdle
  /\ client = JudgeOutcomes

NextRaw ==
  \/ Evaluate
  \/ process_file
  \/ step1_classify_scores
  \/ reflect_evaluation

SpecRaw == InitRaw /\ [][NextRaw]_vars

-----------------------------------------------------------------------------
(* process_urls and clean_page_text (url_content_process/process.py) on    *)
(* the result entries of one input record                                  *)

InitWeb ==
  /\ max_retries \in 0..MaxRetries
  /\ results \in Results
  /\ pos = 1
  /\ attempt = 0
  /\ soup = NoSoup
  /\ requests_made = 0
  /\ ret = [kind |-> "none", value |-> <<>>]
  /\ n_processed = 0
  /\ failed = 0
  /\ wpc = "loop"
  /\ original = <<>>
  /\ answer_map = <<>>
  /\ evaluation = <<>>
  /\ score_9_or_10 = <<>>
  /\ score_not_9_or_10 = <<>>
  /\ output_adjusted = <<>>
  /\ updated_with_k = <<>>
  /\ processed = <<>>
  /\ step2_data = <<>>
  /\ step3_original = <<>>
  /\ written = {}
  /\ error = None
  /\ judge_calls = <<>>
  /\ pc = "idle"
  /\ client = {}

\* `for result in results`: an entry without url is skipped, for the
\* others clean_page_text is entered
process_urls_next ==
  /\ wpc = "loop"
  /\ pos <= Len(results)
  /\ IF results[pos].url = ""
     THEN /\ pos' = pos + 1
          /\ UNCHANGED <<attempt, soup, requests_made, ret, wpc>>
     ELSE /\ attempt' = 1
          /\ soup' = NoSoup
          /\ requests_made' = 0
          /\ ret' = [kind |-> "none", value |-> <<>>]
          /\ wpc' = "fetch"
          /\ pos' = pos
  /\ UNCHANGED <<max_retries, results, n_processed, failed>>
  /\ UNCHANGED <<original, answer_map, evaluation, score_9_or_10,
                 score_not_9_or_10, output_adjusted, updated_with_k, pc,
                 processed, step2_data, step3_original, written, error,
                 judge_calls, client>>

\* one iteration of `for attempt in range(1, max_retries + 1)`: the
\* request succeeds (break) or raises RequestException
requests_get ==
  /\ wpc = "fetch"
  /\ attempt <= max_retries
  /\ requests_made' = requests_made + 1
  /\ \/ /\ \E page \in Pages : soup' = page
        /\ wpc' = "parse"
        /\ UNCHANGED <<attempt, ret>>
     \/ /\ IF attempt < max_retries
           THEN /\ attempt' = attempt + 1
                /\ UNCHANGED <<ret, wpc>>
           ELSE /\ ret' = [kind |-> "return", value |-> <<>>]
                /\ wpc' = "returned"
                /\ attempt' = attempt
        /\ soup' = soup
  /\ UNCHANGED <<max_retries, results, pos, n_processed, failed>>
  /\ UNCHANGED <<original, answer_map, evaluation, score_9_or_10,
                 score_not_9_or_10, output_adjusted, updated_with_k, pc,
                 processed, step2_data, step3_original, written, error,
                 judge_calls, client>>

\* the code after the loop, reached by break or when range() is used up:
\* `assert soup is not None` raises AssertionError, and under python -O,
\* where the assert is compiled away, soup.find_all raises AttributeError
parse_page ==
  /\ \/ wpc = "parse"
     \/ wpc = "fetch" /\ attempt > max_retries
  /\ IF soup = NoSoup
     THEN \E exc \in {"AssertionError", "AttributeError"} :
             ret' = [kind |-> exc, value |-> <<>>]
     ELSE ret' = [kind |-> "return", value |-> cleaned_blocks(soup)]
  /\ wpc' = "returned"
  /\ UNCHANGED <<max_retries, results, pos, attempt, soup, requests_made,
                 n_processed, failed>>
  /\ UNCHANGED <<original, answer_map, evaluation, score_9_or_10,
                 score_not_9_or_10, output_adjusted, updated_with_k, pc,
                 processed, step2_data, step3_original, written, error,
                 judge_calls, client>>

\* the try block of process_urls around the call
process_urls_store ==
  /\ wpc = "returned"
  /\ IF ret.kind = "return"
     THEN /\ results' =
               [results EXCEPT ![pos] =
                  SetField(@, "context",
                           IF ret.value # <<>> THEN ret.value ELSE @.snippet)]
          /\ n_processed' = n_processed + 1
          /\ failed' = failed
     ELSE /\ results' =
               [results EXCEPT ![pos] = SetField(@, "context", @.snippet)]
          /\ failed' = failed + 1
          /\ n_processed' = n_processed
  /\ pos' = pos + 1
  /\ wpc' = "loop"
  /\ UNCHANGED <<max_retries, attempt, soup, requests_made, ret>>
  /\ UNCHANGED <<original, answer_map, evaluation, score_9_or_10,
                 score_not_9_or_10, output_adjusted, updated_with_k, pc,
                 processed, step2_data, step3_original, written, error,
                 judge_calls, client>>

\* out_f.write(...) after the last result of the record
process_urls_write ==
  /\ wpc = "loop"
  /\ pos > Len(results)
  /\ wpc' = "done"
  /\ UNCHANGED <<max_retries, results, pos, attempt, soup, requests_made,
                 ret, n_processed, failed>>
  /\ UNCHANGED <<original, answer_map, evaluation, score_9_or_10,
                 score_not_9_or_10, output_adjusted, updated_with_k, pc,
                 processed, step2_data, step3_original, written, error,
                 judge_calls, client>>

NextWeb ==
  \/ process_urls_next
  \/ requests_get
  \/ parse_page
  \/ process_urls_store
  \/ process_urls_write

SpecWeb == InitWeb /\ [][NextWeb]_vars

-----------------------------------------------------------------------------
(* Vocabulary of the properties *)

\* the literal that carries adjustment vote a
AdjLiteral(a) ==
  IF a = 1 THEN LitAdjPlus ELSE IF a = 0 THEN LitAdjZero ELSE LitAdjMinus

\* the adjustment votes whose literal occurs in the response
Signals(response) == {a \in {-1, 0, 1} : Contains(response, AdjLiteral(a))}

\* one depth level up and down, written out
KUp == [k \in {"0", "1", "2", "3", "4"} |->
          CASE k = "0" -> "1" [] k = "1" -> "2" [] k = "2" -> "3"
            [] k = "3" -> "4" [] k = "4" -> "5"]

KDown == [k \in {"1", "2", "3", "4"} |->
            CASE k = "1" -> "0" [] k = "2" -> "1" [] k = "3" -> "2"
              [] k = "4" -> "3"]

\* the transition table of the K-Transition Engine, row by row
TableK(k, score, adj) ==
  CASE k = "0" /\ adj = 1 -> "1"
    [] k = "0" /\ adj = 0 -> "0"
    [] k = "0" /\ adj = -1 -> "0"
    [] k \in {"5", "null"} /\ score < 3 -> "0"
    [] k \in {"5", "null"} /\ score >= 3 /\ adj = -1 -> "4"
    [] k \in {"5", "null"} /\ score >= 3 /\ adj \in {0, 1} -> k
    [] k \in {"1", "2", "3", "4"} /\ adj = -1 -> KDown[k]
    [] k \in {"1", "2", "3", "4"} /\ adj = 1 -> KUp[k]
    [] k \in {"1", "2", "3", "4"} /\ adj = 0 -> k

\* the elements of a sequence
Range(seq) == {seq[i] : i \in 1..Len(seq)}

\* how often v occurs in seq
Count(seq, v) == Cardinality({i \in 1..Len(seq) : seq[i] = v})

\* the `reflect` subcommand has run on the evaluation file
Reflected == pc = "reflected_all"

-----------------------------------------------------------------------------
(* C1 *)

\* C1: for every k in {"0".."5","null"}, every parsed score 0..10 and every
\* response carrying exactly one adjustment vote, update_k_values sets k to
\* the entry of the transition table.
C1_TransitionTable ==
  Reflected =>
    \A i \in 1..Len(evaluation) :
      LET r == evaluation[i].response
          s == extract_evaluation_score(r)
      IN  \A a \in {-1, 0, 1} :
            (Signals(r) = {a} /\ s \in 0..10) =>
               output_adjusted[i].k = TableK(evaluation[i].k, s, a)

C1_Witness ==
  /\ Reflected
  /\ evaluation[1].k = "5"
  /\ evaluation[1].response = JudgeReply(3, -1)
  /\ output_adjusted[1].k = "4"

-----------------------------------------------------------------------------
(* C2 *)

\* C2: starting from k values in {"0".."5","null"}, every record of every
\* collection of every round holds a k in {"0".."5","null"}.
C2_KInDomain ==
  \A coll \in {original, evaluation, score_9_or_10, score_not_9_or_10,
               output_adjusted, updated_with_k} :
     \A i \in 1..Len(coll) : coll[i].k \in KValues

C2_Witness ==
  /\ pc = "updated"
  /\ \E i \in 1..Len(updated_with_k) : \E j \in 1..Len(original) :
        /\ updated_with_k[i].question = original[j].question
        /\ original[j].k = "4"
        /\ updated_with_k[i].k = "5"

-----------------------------------------------------------------------------
(* C3 *)

\* C3: a record is in the resolved collection exactly when the score that
\* extract_evaluation_score returns for its response is 9 or 10.
C3_ResolvedIffParsedScore ==
  pc = "classified" =>
    \A i \in 1..Len(evaluation) :
      (evaluation[i] \in Range(score_9_or_10))
        <=> (extract_evaluation_score(evaluation[i].response) \in {9, 10})

-----------------------------------------------------------------------------
(* C4 *)

\* C4 as stated: with no adjustment literal in the response, k is unchanged
\* for every k and every score.
C4_NoSignalKeepsK ==
  Reflected =>
    \A i \in 1..Len(evaluation) :
      Signals(evaluation[i].response) = {} =>
         output_adjusted[i].k = evaluation[i].k

\* C4 amended: with no adjustment literal in the response, k is unchanged,
\* except that k = "5" or "null" with a parsed score below 3 becomes "0".
C4_NoSignalKeepsKUnlessReset ==
  Reflected =>
    \A i \in 1..Len(evaluation) :
      LET k == evaluation[i].k
          s == extract_evaluation_score(evaluation[i].response)
      IN  Signals(evaluation[i].response) = {} =>
            output_adjusted[i].k =
               IF k \in {"5", "null"} /\ s < 3 THEN "0" ELSE k

C4_Witness ==
  /\ Reflected
  /\ evaluation[1].k = "3"
  /\ evaluation[1].response = <<ES, SP, "7">>
  /\ output_adjusted[1].k = "3"

-----------------------------------------------------------------------------
(* C5 *)

\* C5: a record whose judge call failed is classified needs-reflection and
\* update_k_values leaves its k unchanged.
C5_FailedEvaluationNoSignal ==
  /\ pc \in {"classified", "reflected", "updated"} =>
       \A i \in 1..Len(evaluation) :
          evaluation[i].response = ErrorResponse =>
             /\ evaluation[i] \in Range(score_not_9_or_10)
             /\ evaluation[i] \notin Range(score_9_or_10)
  /\ pc \in {"reflected", "updated"} =>
       \A i \in 1..Len(score_not_9_or_10) :
          score_not_9_or_10[i].response = ErrorResponse =>
             output_adjusted[i].k = score_not_9_or_10[i].k

-----------------------------------------------------------------------------
(* C6 *)

\* C6: the merged output is exactly the original records whose question is
\* a key of the mapping, each with the mapped k, and nothing else.
C6_MergeExactlyMapped ==
  pc = "updated" =>
    LET m == question_to_k(output_adjusted)
        kept == SelectSeq(original, LAMBDA r : r.question \in DOMAIN m)
    IN  /\ Len(updated_with_k) = Len(kept)
        /\ \A i \in 1..Len(updated_with_k) :
              /\ updated_with_k[i].question \in DOMAIN m
              /\ updated_with_k[i].question = kept[i].question
              /\ updated_with_k[i].meta = kept[i].meta
              /\ updated_with_k[i].k = m[kept[i].question]

C6_Witness ==
  /\ pc = "updated"
  /\ Len(original) = 2
  /\ Len(updated_with_k) = 1
  /\ updated_with_k[1].question = original[2].question
  /\ updated_with_k[1].k # original[2].k
  /\ original[1].question # original[2].question

-----------------------------------------------------------------------------
(* C7 *)

\* the table row a ceiling record took
CeilingRow(k_in, k_out) ==
  IF k_out = "0" THEN "reset"
  ELSE IF k_out = "4" THEN "down"
  ELSE IF k_out = k_in THEN "keep"
  ELSE "other"

\* C7: on every response, a record with k = "null" takes the row that the
\* same record with k = "5" takes: both reset, both go down, or both keep.
C7_NullAsFive ==
  Reflected =>
    \A i \in 1..Len(evaluation) :
      evaluation[i].k = "null" =>
        /\ CeilingRow("null", output_adjusted[i].k) # "other"
        /\ CeilingRow("null", output_adjusted[i].k) =
             CeilingRow("5", update_k_values(
                <<[evaluation[i] EXCEPT !.k = "5"]>>)[1].k)

C7_Witness ==
  /\ Reflected
  /\ evaluation[1].k = "null"
  /\ evaluation[1].response = JudgeReply(7, -1)
  /\ output_adjusted[1].k = "4"

-----------------------------------------------------------------------------
(* C8 *)

\* C8: for a response with neither label the parsed score is 0 and no
\* adjustment literal matches; k = "5" becomes "0" and k = "2" stays "2".
C8_MissingBothLines ==
  Reflected =>
    \A i \in 1..Len(evaluation) :
      LET r == evaluation[i].response
      IN  (ES \notin Range(r) /\ CA \notin Range(r)) =>
            /\ extract_evaluation_score(r) = 0
            /\ Signals(r) = {}
            /\ evaluation[i].k = "5" => output_adjusted[i].k = "0"
            /\ evaluation[i].k = "2" => output_adjusted[i].k = "2"

C8_Witness ==
  /\ Reflected
  /\ evaluation[1].k = "5"
  /\ evaluation[1].response = ErrorResponse
  /\ output_adjusted[1].k = "0"

-----------------------------------------------------------------------------
(* C9 *)

\* C9: resolved and needs-reflection are disjoint and together hold every
\* input record exactly as often as the input does.
C9_ClassifyPartitions ==
  pc = "classified" =>
    /\ Range(score_9_or_10) \cap Range(score_not_9_or_10) = {}
    /\ Len(score_9_or_10) + Len(score_not_9_or_10) = Len(evaluation)
    /\ \A v \in Range(evaluation) \cup Range(score_9_or_10)
                  \cup Range(score_not_9_or_10) :
          Count(score_9_or_10, v) + Count(score_not_9_or_10, v)
             = Count(evaluation, v)

C9_Witness ==
  /\ pc = "classified"
  /\ Len(score_9_or_10) = 1
  /\ Len(score_not_9_or_10) = 1

-----------------------------------------------------------------------------
(* C10 *)

\* positions of a label that is followed, after optional white space, by a
\* digit
ScoreOccurrences(r) ==
  {i \in 1..Len(r) :
     /\ r[i] = ES
     /\ \E j \in (i + 1)..Len(r) :
           /\ IsDigit(r[j])
           /\ \A m \in (i + 1)..(j - 1) : IsSpace(r[m])}

\* value of a digit string, from its last digit
RECURSIVE DecimalValue(_)
DecimalValue(ds) ==
  IF ds = <<>> THEN 0
  ELSE 10 * DecimalValue(SubSeq(ds, 1, Len(ds) - 1)) + DigitVal(ds[Len(ds)])

\* the integer that follows the label at position i
IntegerAfter(r, i) ==
  LET j == CHOOSE j \in (i + 1)..Len(r) :
             IsDigit(r[j]) /\ \A m \in (i + 1)..(j - 1) : IsSpace(r[m])
      e == CHOOSE e \in j..Len(r) :
             /\ \A m \in j..e : IsDigit(r[m])
             /\ (e = Len(r) \/ ~IsDigit(r[e + 1]))
  IN  DecimalValue(SubSeq(r, j, e))

\* C10: the parsed score is the integer of the first label occurrence that
\* is followed by an integer, and 0 when there is none.
C10_FirstMatchWins ==
  \A i \in 1..Len(evaluation) :
    LET r == evaluation[i].response
        occ == ScoreOccurrences(r)
    IN  extract_evaluation_score(r) =
          IF occ = {} THEN 0
          ELSE IntegerAfter(r, CHOOSE p \in occ : \A q \in occ : p <= q)

C10_Witness ==
  /\ Reflected
  /\ evaluation[1].k = "5"
  /\ evaluation[1].response = <<ES, SP, "2", NL, ES, SP, "9">>
  /\ extract_evaluation_score(evaluation[1].response) = 2
  /\ output_adjusted[1].k = "0"

-----------------------------------------------------------------------------
(* C11 *)

\* C11: the score extract_evaluation_score returns is an integer from 0
\* to 10.
C11_ScoreInRange ==
  \A i \in 1..Len(evaluation) :
     extract_evaluation_score(evaluation[i].response) \in 0..10

-----------------------------------------------------------------------------
(* C12 *)

\* the questions of the records of a collection
QuestionsOf(coll) == {coll[i].question : i \in 1..Len(coll)}

\* C12: every record of the merged output has the fields of the original
\* record it comes from, with the same values, except for k.
C12_MergeKeepsOtherFields ==
  pc = "updated" =>
    LET kept == SelectSeq(original,
                   LAMBDA r : r.question \in QuestionsOf(output_adjusted))
    IN  /\ Len(updated_with_k) = Len(kept)
        /\ \A i \in 1..Len(updated_with_k) :
              /\ DOMAIN updated_with_k[i] = DOMAIN kept[i]
              /\ \A f \in (DOMAIN kept[i]) \ {"k"} :
                    updated_with_k[i][f] = kept[i][f]

C12_Witness ==
  /\ pc = "updated"
  /\ Len(updated_with_k) = 2
  /\ original[1].k = "2"
  /\ updated_with_k[1].k = "3"
  /\ updated_with_k[1].meta = Docs
  /\ updated_with_k[1].ground_truth = GroundTruth

-----------------------------------------------------------------------------
(* C13 *)

\* position in the evaluation results of the dataset record at position j
EvalIndex(j) ==
  Cardinality({n \in 1..j : original[n].question \in DOMAIN answer_map})

\* the dataset record at position j was evaluated and classified resolved
Resolved(j) ==
  /\ original[j].question \in DOMAIN answer_map
  /\ evaluation[EvalIndex(j)] \in Range(score_9_or_10)

\* C13: after a full round the merged output holds no record whose
\* evaluated record was classified as resolved in that round.
C13_ResolvedExcluded ==
  pc = "updated" =>
    \A j \in 1..Len(original) :
       Resolved(j) =>
          \A i \in 1..Len(updated_with_k) :
             updated_with_k[i].question # original[j].question

-----------------------------------------------------------------------------
(* C14 *)

\* C14: update_k_values returns as many records as it was given, in the
\* same order, each with every field but k as before.
C14_ReflectChangesOnlyK ==
  pc \in {"reflected", "updated"} =>
    /\ Len(output_adjusted) = Len(score_not_9_or_10)
    /\ \A i \in 1..Len(output_adjusted) :
          /\ DOMAIN output_adjusted[i] = DOMAIN score_not_9_or_10[i]
          /\ \A f \in (DOMAIN score_not_9_or_10[i]) \ {"k"} :
                output_adjusted[i][f] = score_not_9_or_10[i][f]

C14_Witness ==
  /\ pc = "reflected"
  /\ Len(score_not_9_or_10) = 2
  /\ score_not_9_or_10[1].question # score_not_9_or_10[2].question
  /\ output_adjusted[1].k # score_not_9_or_10[1].k
  /\ output_adjusted[2].k = score_not_9_or_10[2].k

-----------------------------------------------------------------------------
(* C15 *)

\* the record matches no row of the transition table
MatchesNoRow(item) ==
  \/ "k" \notin DOMAIN item
  \/ item.k \notin KValues
  \/ /\ item.k \in {"0", "1", "2", "3", "4"}
     /\ Signals(item.response) = {}
  \/ /\ item.k \in {"5", "null"}
     /\ extract_evaluation_score(item.response) >= 3
     /\ Signals(item.response) = {}

\* C15: update_k_values never raises, and a record that matches no row of
\* the table, a record without k or with a k that is no depth level
\* included, is the same after the call.
C15_NeverRaisesNoRowKeepsK ==
  /\ pc # "reflect_raised"
  /\ Reflected =>
       \A i \in 1..Len(evaluation) :
          MatchesNoRow(evaluation[i]) => output_adjusted[i] = evaluation[i]

-----------------------------------------------------------------------------
(* C16 *)

\* C16: a failed judge call does not end the batch: the results hold one
\* entry, in order, for every record whose question has an answer.
C16_FailedCallKeepsBatch ==
  /\ pc # "evaluate_raised"
  /\ pc # "ingested" =>
       LET answered == SelectSeq(original,
                          LAMBDA r : r.question \in DOMAIN answer_map)
       IN  /\ Len(evaluation) = Len(answered)
           /\ \A i \in 1..Len(evaluation) :
                 evaluation[i].question = answered[i].question

C16_Witness ==
  /\ pc = "evaluated"
  /\ Len(evaluation) = 2
  /\ evaluation[1].response = ErrorResponse
  /\ evaluation[2].response = JudgeReply(7, 1)

-----------------------------------------------------------------------------
(* C17 *)

\* the documents of a record, the empty list when it has none
MetaOrEmpty(item) == IF "meta" \in DOMAIN item THEN item.meta ELSE <<>>

\* C17: a record without k is processed without failure and is given no
\* k, a record without meta is processed as one with no documents, in
\* evaluate_responses, update_k_values and process_meta_by_k.
C17_AbsentFieldsAreDefaults ==
  /\ pc # "evaluate_raised"
  /\ pc # "reflect_raised"
  /\ Reflected =>
       \A i \in 1..Len(evaluation) :
          "k" \notin DOMAIN evaluation[i] =>
             "k" \notin DOMAIN output_adjusted[i]
  /\ pc = "trimmed" =>
       \A i \in 1..Len(original) :
          /\ "meta" \notin DOMAIN original[i] => processed[i].meta = <<>>
          /\ "k" \notin DOMAIN original[i] =>
                /\ "k" \notin DOMAIN processed[i]
                /\ processed[i].meta = MetaOrEmpty(original[i])

-----------------------------------------------------------------------------
(* C18 *)

\* C18: after update_k_values(data) and after
\* update_k_values_from_mapping(original_data, k_mapping) the records of
\* the input list hold the k they held before the call.
C18_InputNotMutated ==
  /\ pc \in {"reflected", "updated"} =>
       \A i \in 1..Len(step2_data) :
          step2_data[i].k = score_not_9_or_10[i].k
  /\ pc = "updated" =>
       \A i \in 1..Len(step3_original) :
          step3_original[i].k = original[i].k

-----------------------------------------------------------------------------
(* C19 *)

\* seq is the first n elements of full, or all of full when it is shorter
IsPrefixOfLength(seq, full, n) ==
  /\ Len(seq) = (IF n < Len(full) THEN n ELSE Len(full))
  /\ \A m \in 1..Len(seq) : seq[m] = full[m]

\* C19: process_meta_by_k leaves a prefix of the ranked documents: none
\* for k = "0", all for k = "null", the first min(k, length) for
\* k = "1".."5".
C19_MetaIsPrefix ==
  pc = "trimmed" =>
    \A i \in 1..Len(original) :
       LET full == MetaOrEmpty(original[i])
           out == processed[i].meta
       IN  /\ \E n \in 0..Len(full) : IsPrefixOfLength(out, full, n)
           /\ "k" \in DOMAIN original[i] =>
                /\ original[i].k = "0" => out = <<>>
                /\ original[i].k = "null" => out = full
                /\ original[i].k \in {"1", "2", "3", "4", "5"} =>
                      IsPrefixOfLength(out, full, DigitVal(original[i].k))

C19_Witness ==
  /\ pc = "trimmed"
  /\ "k" \in DOMAIN original[1]
  /\ original[1].k = "3"
  /\ "meta" \in DOMAIN original[1]
  /\ Len(original[1].meta) = 5
  /\ processed[1].meta = <<1, 2, 3>>

-----------------------------------------------------------------------------
(* C20 *)

\* the output files exist in the order the steps write them, each step
\* worked on the file of the step before, and an aborted run has no final
\* output
FilesInStepOrder ==
  /\ LowFile \in written => HighFile \in written
  /\ AdjustedFile \in written => LowFile \in written
  /\ FinalFile \in written => AdjustedFile \in written
  /\ pc = "aborted" => FinalFile \notin written
  /\ AdjustedFile \in written =>
       /\ Len(output_adjusted) = Len(score_not_9_or_10)
       /\ \A i \in 1..Len(output_adjusted) :
             output_adjusted[i].question = score_not_9_or_10[i].question
  /\ FinalFile \in written =>
       QuestionsOf(updated_with_k) \subseteq QuestionsOf(output_adjusted)

\* one step of a run: classify, reflect, update in that order or an abort;
\* nothing happens after an abort; a written file stays as it is
StepInOrder ==
  /\ pc = "evaluated" => pc' \in {"classified", "aborted"}
  /\ pc = "classified" => pc' \in {"reflected", "aborted"}
  /\ pc = "reflected" => pc' \in {"updated", "aborted"}
  /\ pc # "aborted"
  /\ pc # "updated" =>
       /\ written \subseteq written'
       /\ HighFile \in written => score_9_or_10' = score_9_or_10
       /\ LowFile \in written => score_not_9_or_10' = score_not_9_or_10
       /\ AdjustedFile \in written => output_adjusted' = output_adjusted
       /\ FinalFile \in written => updated_with_k' = updated_with_k

\* C20: run_all_steps runs classify, reflect and update in that order on
\* each other's files; a failing step aborts the run, the files written
\* before stay, and no later step runs or writes.
C20_StepsInOrderAbortStops == [](FilesInStepOrder) /\ [][StepInOrder]_vars

C20_Witness ==
  /\ pc = "aborted"
  /\ written = {HighFile, LowFile}
  /\ Len(score_not_9_or_10) = 1
  /\ output_adjusted = <<>>
  /\ updated_with_k = <<>>

-----------------------------------------------------------------------------
(* C21 *)

\* C21: a step that ends in load_json_file, on a missing file or on a
\* file with invalid JSON, surfaces an error of the documented kind
\* (FileNotFoundError, json.JSONDecodeError) whose message names the
\* failing path.
C21_LoadErrorsDocumented ==
  pc = "aborted" /\ error.function = "load_json_file" =>
     /\ error.kind \in {"FileNotFoundError", "JSONDecodeError"}
     /\ error.file \in Range(error.message)

-----------------------------------------------------------------------------
(* C22 *)

\* C22: for every max_retries, clean_page_text issues at most max_retries
\* requests for a url, issues none after a successful one, returns the
\* empty string when every attempt failed and never ends in an exception,
\* so process_urls counts every fetched url as processed, none as failed.
C22_RetriesBoundedNoAssertion ==
  /\ requests_made <= max_retries
  /\ soup # NoSoup => wpc # "fetch"
  /\ wpc = "returned" => ret.kind = "return"
  /\ wpc = "returned" /\ soup = NoSoup => ret.value = <<>>
  /\ failed = 0

-----------------------------------------------------------------------------
(* C23 *)

\* C23: over rounds in which the merged output is the next dataset, the
\* set of questions never grows: the questions of the merged output are
\* questions of the round's dataset and of its needs-reflection records,
\* and no step brings a question into the dataset, so a question that
\* was dropped does not come back.
C23_QuestionsNeverGrow ==
  /\ [](pc = "updated" =>
         QuestionsOf(updated_with_k) \subseteq
            QuestionsOf(original) \cap QuestionsOf(score_not_9_or_10))
  /\ [][QuestionsOf(original') \subseteq QuestionsOf(original)]_vars

\* a later round starts on a dataset that lost every question
C23_Witness ==
  /\ pc = "ingested"
  /\ original = <<>>
  /\ written = {}

-----------------------------------------------------------------------------
(* C24 *)

\* question q is in the dataset
InDataset(q) == q \in QuestionsOf(original)

\* question q holds a judge response whose score is 9 or 10
ScoredHigh(q) ==
  \E i \in 1..Len(evaluation) :
     /\ evaluation[i].question = q
     /\ extract_evaluation_score(evaluation[i].response) \in {9, 10}

\* C24: with unique questions and rounds repeated by the operator, if
\* every question still in the dataset eventually receives a judge
\* response with a score of 9 or 10, then the dataset eventually is empty
\* and stays empty.
C24_EventuallyEmpty ==
  (\A q \in Questions : InDataset(q) ~> (~InDataset(q) \/ ScoredHigh(q)))
     => <>[](original = <<>>)

-----------------------------------------------------------------------------
(* C25 *)

\* C25: no transition enters k = "null": update_k_values leaves every
\* record whose k is numeric with a numeric k, and a record of the
\* dataset whose k is numeric has a numeric k in the dataset of the next
\* round.
C25_NullNeverEntered ==
  /\ pc \in {"reflected", "updated"} =>
       \A i \in 1..Len(score_not_9_or_10) :
          score_not_9_or_10[i].k # "null" => output_adjusted[i].k # "null"
  /\ pc = "updated" =>
       \A i \in 1..Len(original) :
          original[i].k # "null" => step3_original[i].k # "null"

-----------------------------------------------------------------------------
(* C26 *)

\* the k of the last record of coll that holds question q
LastK(coll, q) ==
  LET last == CHOOSE i \in 1..Len(coll) :
                /\ coll[i].question = q
                /\ \A j \in (i + 1)..Len(coll) : coll[j].question # q
  IN  coll[last].k

\* C26: when the k-values collection holds several records with one
\* question, every original record with that question gets the k of the
\* last of them, and each original record is in the output at most once.
C26_LastDuplicateWins ==
  pc = "updated" =>
     /\ \A j \in 1..Len(updated_with_k) :
           updated_with_k[j].k =
              LastK(output_adjusted, updated_with_k[j].question)
     /\ Len(updated_with_k) =
           Cardinality({i \in 1..Len(original) :
                          original[i].question \in QuestionsOf(output_adjusted)})

\* two reflected records share a question and differ in k, and the merged
\* output holds the records of that question
C26_Witness ==
  /\ pc = "updated"
  /\ Len(output_adjusted) = 2
  /\ output_adjusted[1].question = output_adjusted[2].question
  /\ output_adjusted[1].k # output_adjusted[2].k
  /\ Len(updated_with_k) = 2
  /\ updated_with_k[1].k = output_adjusted[2].k
  /\ updated_with_k[2].k = output_adjusted[2].k

-----------------------------------------------------------------------------
(* C27 *)

\* the vote that wins among the votes sig at depth k: -1 over +1 over 0
\* for "1".."4", "5" and "null"; +1 over 0 and -1 for "0"
Winner(k, sig) ==
  IF k = "0" THEN (IF 1 \in sig THEN 1 ELSE IF 0 \in sig THEN 0 ELSE -1)
  ELSE (IF -1 \in sig THEN -1 ELSE IF 1 \in sig THEN 1 ELSE 0)

-----------------------------------------------------------------------------
(* C28 *)

\* C28: evaluate_responses emits its results in the order of the
\* metadata records, at most one per record; a record whose question is
\* not in the answer map gets no result and no judge call; each result
\* holds the k and the meta of its record unchanged.
C28_EvaluateOrderedSkipsUnanswered ==
  pc = "evaluated" =>
     /\ Len(evaluation) =
           Cardinality({j \in 1..Len(original) :
                          original[j].question \in DOMAIN answer_map})
     /\ \A j \in 1..Len(original) :
           original[j].question \in DOMAIN answer_map =>
              /\ evaluation[EvalIndex(j)].question = original[j].question
              /\ evaluation[EvalIndex(j)].k = original[j].k
              /\ evaluation[EvalIndex(j)].meta = original[j].meta
     /\ judge_calls = [i \in 1..Len(evaluation) |-> evaluation[i].question]

\* the first record has no answer and is skipped, the second is judged
C28_Witness ==
  /\ pc = "evaluated"
  /\ Len(original) = 2
  /\ original[1].question \notin DOMAIN answer_map
  /\ original[2].question \in DOMAIN answer_map
  /\ original[1].k # original[2].k
  /\ Len(evaluation) = 1
  /\ evaluation[1].k = original[2].k
  /\ judge_calls = <<original[2].question>>

-----------------------------------------------------------------------------
(* C29 *)

\* C29: the records update_k_values_from_mapping keeps are in the output
\* in the relative order they have in the original dataset, and the
\* output is never longer than the original dataset.
C29_MergeKeepsOrder ==
  pc = "updated" =>
     /\ Len(updated_with_k) <= Len(original)
     /\ \E f \in [1..Len(updated_with_k) -> 1..Len(original)] :
           /\ \A i, j \in 1..Len(updated_with_k) : i < j => f[i] < f[j]
           /\ \A j \in 1..Len(updated_with_k) :
                 updated_with_k[j] =
                    [original[f[j]] EXCEPT !.k = updated_with_k[j].k]

\* two records with different questions were kept, in dataset order
C29_Witness ==
  /\ pc = "updated"
  /\ Len(updated_with_k) = 2
  /\ updated_with_k[1].question # updated_with_k[2].question
  /\ updated_with_k[1].question = original[1].question
  /\ updated_with_k[2].question = original[2].question

-----------------------------------------------------------------------------
(* C30 *)

\* C30: process_meta_by_k applied to its own output gives that output
\* again, and applied to its output after k was set to any other value it
\* leaves no more documents than the output holds, at most k of them
\* when the first k was a number.
C30_TrimIdempotentAndLossy ==
  pc = "trimmed" =>
     /\ process_meta_by_k(processed) = processed
     /\ \A i \in 1..Len(processed), k2 \in RawK :
           LET again == process_meta_item(SetField(processed[i], "k", k2))
           IN  /\ Len(again.meta) <= Len(processed[i].meta)
               /\ "k" \in DOMAIN processed[i] /\ processed[i].k \in DigitChars
                     => Len(again.meta) <= DigitVal(processed[i].k)

\* six documents were trimmed to two with k = "2"; a depth raised to
\* "4" leaves the two
C30_Witness ==
  /\ pc = "trimmed"
  /\ DOMAIN original[1] = {"question", "ground_truth", "k", "meta"}
  /\ original[1].k = "2"
  /\ Len(original[1].meta) = 6
  /\ Len(processed[1].meta) = 2
  /\ Len(process_meta_item(SetField(processed[1], "k", "4")).meta) = 2

====
